---- MODULE Spec2Model ----
(***************************************************************************)
(* ArdusatSDK-Logging: the SD card logging layer of ArdusatLogging.cpp     *)
(* (the logBytes / beginDataLog revision that ArdusatLogging.h declares).  *)
(* Bytes are naturals 0..255, strings are sequences of ASCII codes, and a  *)
(* path on the card is the byte string beginDataLog builds with sprintf.   *)
(***************************************************************************)
EXTENDS Integers, Sequences, FiniteSets, TLC

(***************************************************************************)
(* Bounds of the exploration.                                              *)
(***************************************************************************)
\* calls of beginDataLog plus calls that write to the open file
MaxCalls == 3
\* passes of the naming loop explored before it counts as not ending
MaxIterations == 1024

(***************************************************************************)
(* Text helpers: the C strings the code handles.                           *)
(***************************************************************************)
NUL == 0

\* "/data"
rootPath == <<47, 100, 97, 116, 97>>

\* "csv" / "bin", the extension sprintf appends
Extension(csvData) == IF csvData THEN <<99, 115, 118>> ELSE <<98, 105, 110>>

\* the caller's prefixes: "MYLOGFILE", "PREFIX", "ABCDE1", "MYLOG"
MYLOGFILE == <<77, 89, 76, 79, 71, 70, 73, 76, 69>>
PREFIX == <<80, 82, 69, 70, 73, 88>>
ABCDE1 == <<65, 66, 67, 68, 69, 49>>
MYLOG == <<77, 89, 76, 79, 71>>

\* what an out-of-bounds read of the caller's buffer can return
GarbageBytes == {0, 90}

\* printf("%d") of a non-negative int
RECURSIVE Decimal(_)
Decimal(n) == IF n < 10 THEN <<48 + n>> ELSE Decimal(n \div 10) \o <<48 + (n % 10)>>

\* the C string held in a char array: the bytes before the first NUL
RECURSIVE CStr(_)
CStr(arr) ==
  IF arr = <<>> \/ Head(arr) = NUL THEN <<>> ELSE <<Head(arr)>> \o CStr(Tail(arr))

\* a string literal / static char array as the caller owns it: text plus NUL
CallerBuffer(text) == text \o <<NUL>>

(***************************************************************************)
(* beginDataLog: the working prefix and the candidate names.               *)
(***************************************************************************)
MinFreeMemory == 400

\* how many bytes memcpy(prefix, fileNamePrefix, 7) reads
PrefixCopyLen(buf) == 7

\* memcpy(prefix, fileNamePrefix, 7); prefix[7] = '\0'; a read past the end of
\* the caller's buffer returns whatever lies there
CopyPrefix(buf, garbage) ==
  LET src(k) == IF k > PrefixCopyLen(buf) THEN NUL
                ELSE IF k <= Len(buf) THEN buf[k] ELSE garbage
  IN <<src(1), src(2), src(3), src(4), src(5), src(6), src(7), NUL>>

\* bytes of the copy that lie past the end of the caller's buffer
OverRead(buf) == IF PrefixCopyLen(buf) > Len(buf) THEN PrefixCopyLen(buf) - Len(buf) ELSE 0

\* a chain whose final else is never reached below 10000
MaxLenNoBreak(i) == IF i < 10 THEN 7 ELSE IF i < 100 THEN 6 ELSE IF i < 10000 THEN 5 ELSE 0

\* a chain that breaks ten indices late
MaxLenLateBreak(i) == IF i < 10 THEN 7 ELSE IF i < 100 THEN 6 ELSE IF i < 1010 THEN 5 ELSE 0

\* the if / else-if chain on i; 0 stands for the final else (break)
MaxLen(i) == IF i < 10 THEN 7 ELSE IF i < 100 THEN 6 ELSE IF i < 1000 THEN 5 ELSE 0

\* a pass that leaves the prefix array as it is
KeepPrefix(prefix, max_len) == prefix

\* prefix[max_len - 1] = '\0' (the array is 0-based in C, 1-based here)
Truncate(prefix, max_len) == [prefix EXCEPT ![max_len] = NUL]

\* sprintf(fileName, "%s/%s%d.%s", rootPath, prefix, i, csvData ? "csv" : "bin")
FileName(prefix, i, csvData) ==
  rootPath \o <<47>> \o CStr(prefix) \o Decimal(i) \o <<46>> \o Extension(csvData)

\* one pass of the loop body up to the sd.exists test: the prefix array as the
\* pass leaves it and the name it built (MaxLen(i) # 0)
BuildName(i, prefix, csvData) ==
  LET p == Truncate(prefix, MaxLen(i))
  IN [prefix |-> p, fileName |-> FileName(p, i, csvData)]

\* one pass of while (true): break at the final else, stop at the first name
\* that does not exist, i++ otherwise
LoopStep(i, st, csvData, existing) ==
  IF MaxLen(i) = 0
  THEN [st EXCEPT !.done = TRUE, !.i = i]
  ELSE LET b == BuildName(i, st.prefix, csvData)
           free == b.fileName \notin existing
       IN [i |-> IF free THEN i ELSE i + 1, prefix |-> b.prefix,
           built |-> Append(st.built, b.fileName), found |-> free, done |-> free]

\* the passes for i = lo .. hi-1 in order, until one ends the loop (the range
\* is halved only to keep the evaluation shallow)
RECURSIVE LoopRange(_, _, _, _, _)
LoopRange(lo, hi, st, csvData, existing) ==
  IF st.done \/ lo >= hi THEN st
  ELSE IF hi = lo + 1 THEN LoopStep(lo, st, csvData, existing)
  ELSE LET mid == (lo + hi) \div 2
       IN LoopRange(mid, hi, LoopRange(lo, mid, st, csvData, existing), csvData, existing)

\* the whole loop from i = 0: the names it built, in order, whether the last
\* one was free (and so is opened), and whether the loop ended at all
NamingLoop(prefix, csvData, existing) ==
  LoopRange(0, MaxIterations,
            [i |-> 0, prefix |-> prefix, built |-> <<>>, found |-> FALSE, done |-> FALSE],
            csvData, existing)

\* the passes for i = lo .. hi-1 when every name built exists already: the
\* names earlier sessions of a sketch left on the card
RECURSIVE NamesBuilt(_, _, _, _)
NamesBuilt(lo, hi, st, csvData) ==
  IF MaxLen(st.i) = 0 \/ lo >= hi THEN st
  ELSE IF hi = lo + 1
       THEN LET b == BuildName(lo, st.prefix, csvData)
            IN [i |-> lo + 1, prefix |-> b.prefix, names |-> Append(st.names, b.fileName)]
       ELSE LET mid == (lo + hi) \div 2
            IN NamesBuilt(mid, hi, NamesBuilt(lo, mid, st, csvData), csvData)

(***************************************************************************)
(* The state: the card, the File object, the scratch buffer of the SDK,    *)
(* the clock chip, and what the last API call did.                         *)
(***************************************************************************)
VARIABLES
  sketch,           \* the sketch's LOG_FILE_PREFIX and LOG_CSV_DATA
  files,            \* the card: path -> bytes of the file
  rootExists,       \* the card has the directory /data
  fileOpen,         \* file.isOpen()
  filePath,         \* the path the File object was opened on
  output_buffer,    \* _output_buffer: "NULL", "heap" (new char[]) or "sdcache"
  OUTPUT_BUF_SIZE,  \* the SDK's global
  rtcRunning,       \* RTC.isrunning()
  halted,           \* the sketch no longer runs (undefined behaviour took it down)
  call,             \* the last API call: its arguments and what it returned
  ops,              \* the device operations the last API call issued, in order
  layout,           \* per file created in this run: the writes it received
  nCalls            \* calls counted against MaxCalls so far

vars == <<sketch, files, rootExists, fileOpen, filePath, output_buffer, OUTPUT_BUF_SIZE,
          rtcRunning, halted, call, ops, layout, nCalls>>

\* the cards a sketch starts on: n earlier sessions of a sketch that logged
\* with this prefix and mode
Cards ==
  { [prefix |-> MYLOG, csvData |-> TRUE, n |-> 0],
    [prefix |-> PREFIX, csvData |-> FALSE, n |-> 5],
    [prefix |-> ABCDE1, csvData |-> FALSE, n |-> 10],
    [prefix |-> MYLOGFILE, csvData |-> TRUE, n |-> 100],
    [prefix |-> MYLOGFILE, csvData |-> FALSE, n |-> 1000] }

CardFiles(card) ==
  LET names == NamesBuilt(0, card.n,
                          [i |-> 0, prefix |-> CopyPrefix(CallerBuffer(card.prefix), NUL),
                           names |-> <<>>],
                          card.csvData).names
  IN [p \in {names[k] : k \in 1..Len(names)} |-> <<>>]

\* the sensor id the sketch uses and the reading its sensors deliver, as the
\* SDK hands them over: 1.5 = 0x3FC00000, -2.25 = 0xC0100000, 0.0
SensorIds == {1}
Timestamps == {12345}
Floats == {<<0, 0, 192, 63>>}
Vectors == {<< <<0, 0, 192, 63>>, <<0, 0, 16, 192>>, <<0, 0, 0, 0>> >>}

\* the sketch: what setup() passes to beginDataLog and what loop() logs
Sketches(cards, ids, stamps, vectors, scalars) ==
  { [prefix |-> card.prefix, csvData |-> card.csvData, sensorId |-> id,
     timestamp |-> t, vector |-> v, scalar |-> f] :
      card \in cards, id \in ids, t \in stamps, v \in vectors, f \in scalars }

\* the SDK's buffer size before beginDataLog sets it
InitialBufSizes == {128, 256}

Init ==
  /\ \E card \in Cards :
       /\ sketch \in Sketches({card}, SensorIds, Timestamps, Vectors, Floats)
       /\ files = CardFiles(card)
       /\ rootExists \in (IF card.n = 0 THEN BOOLEAN ELSE {TRUE})
  /\ fileOpen = FALSE
  /\ filePath = <<>>
  /\ output_buffer \in {"NULL", "heap"}
  /\ OUTPUT_BUF_SIZE \in InitialBufSizes
  /\ rtcRunning \in BOOLEAN
  /\ halted = FALSE
  /\ call = [op |-> "none"]
  /\ ops = <<>>
  /\ layout = <<>>
  /\ nCalls = 0

(***************************************************************************)
(* beginDataLog                                                            *)
(***************************************************************************)
\* the device operations of a call, as they are recorded in ops
OpSdBegin == <<"sd.begin">>
OpExists(path) == <<"sd.exists", path>>
OpMkdir(path) == <<"sd.mkdir", path>>
OpOpen(path) == <<"sd.open", path>>
OpWrite(n, src) == <<"file.write", n, src>>
OpSync == <<"file.sync">>

\* delete [] _output_buffer when it is not NULL
DeletesBuffer(buffer) == buffer # "NULL"

\* a beginDataLog that writes a time header to the file it has just opened
\* ("time" and a newline in a text log, the 0xFFFF marker in a binary one)
BeginWritesHeader(running, csvData) ==
  IF ~running THEN <<>>
  ELSE IF csvData THEN <<116, 105, 109, 101, 10>> ELSE <<255, 255, 0, 0, 0, 0, 0, 0, 0, 0>>

\* what beginDataLog itself writes to the file it has just opened: nothing
\* lies between the loop and the return
BeginWrites(running, csvData) == <<>>

\* return file.isOpen()
BeginReturn(isOpen) == isOpen

\* a beginDataLog that calls mkdir without looking for the directory
AlwaysMkdir(ret, exists) == ret

\* if (ret) { if (!sd.exists(rootPath)) ret = sd.mkdir(rootPath); ... }
NeedDir(ret, exists) == ret /\ ~exists

beginDataLog(fileNamePrefix, csvData, freeMem, sdBeginOk, mkdirOk, openOk, buf, prefix, loop, crash) ==
  /\ ~halted
  /\ nCalls < MaxCalls
  /\ nCalls' = nCalls + 1
  /\ IF DeletesBuffer(output_buffer) /\ output_buffer # "heap" /\ crash
     THEN \* delete [] of memory that new [] never returned: the sketch may die here
          /\ halted' = TRUE
          /\ call' = [op |-> "beginDataLog", returned |-> FALSE,
                      deleted |-> output_buffer]
          /\ ops' = <<>>
          /\ UNCHANGED <<sketch, files, rootExists, fileOpen, filePath, output_buffer,
                         OUTPUT_BUF_SIZE, rtcRunning, layout>>
     ELSE LET lowMem == freeMem < MinFreeMemory
              ret1 == IF lowMem THEN FALSE ELSE sdBeginOk
              needDir == NeedDir(ret1, rootExists)
              ret2 == IF needDir THEN mkdirOk ELSE ret1
              fileName == loop.built[Len(loop.built)]
              opening == ret2 /\ loop.found
              created == opening /\ openOk
              isOpen == IF opening THEN openOk ELSE fileOpen
          IN /\ output_buffer' = "sdcache"
             /\ OUTPUT_BUF_SIZE' = 512
             /\ rootExists' = (rootExists \/ (needDir /\ mkdirOk))
             /\ files' = IF created
                         THEN files @@ (fileName :> BeginWrites(rtcRunning, csvData))
                         ELSE files
             /\ layout' = IF created
                          THEN layout @@ (fileName :>
                                 IF BeginWrites(rtcRunning, csvData) = <<>> THEN <<>>
                                 ELSE << [kind |-> "time",
                                          n |-> Len(BeginWrites(rtcRunning, csvData)),
                                          written |-> Len(BeginWrites(rtcRunning, csvData))] >>)
                          ELSE layout
             /\ fileOpen' = isOpen
             /\ filePath' = IF created THEN fileName
                            ELSE IF opening THEN <<>> ELSE filePath
             /\ halted' = (ret2 /\ ~loop.done)
             /\ ops' = (IF lowMem THEN <<>> ELSE <<OpSdBegin>>)
                       \o (IF ret1 THEN <<OpExists(rootPath)>> ELSE <<>>)
                       \o (IF needDir THEN <<OpMkdir(rootPath)>> ELSE <<>>)
                       \o (IF ret2
                           THEN [k \in 1..Len(loop.built) |-> OpExists(loop.built[k])]
                           ELSE <<>>)
                       \o (IF opening THEN <<OpOpen(fileName)>> ELSE <<>>)
             /\ call' = [op |-> "beginDataLog", returned |-> (ret2 => loop.done),
                         ret |-> BeginReturn(isOpen),
                         fileNamePrefix |-> fileNamePrefix, csvData |-> csvData,
                         deleted |-> IF DeletesBuffer(output_buffer)
                                     THEN output_buffer ELSE "nothing",
                         available |-> Len(buf), copied |-> PrefixCopyLen(buf),
                         overread |-> OverRead(buf),
                         lowMem |-> lowMem, searched |-> ret2,
                         index |-> IF ret2 THEN loop.i ELSE 0,
                         created |-> created,
                         wasOpen |-> fileOpen]
             /\ UNCHANGED <<sketch, rtcRunning>>

\* setup() of the sketch: beginDataLog(SD_CS_PIN, LOG_FILE_PREFIX, LOG_CSV_DATA);
\* the copy of the prefix and the naming loop are worked out once per call
BeginDataLog ==
  LET buf == CallerBuffer(sketch.prefix)
  IN \E garbage \in (IF OverRead(buf) > 0 THEN GarbageBytes ELSE {NUL}) :
       LET prefix == CopyPrefix(buf, garbage)
           loop == NamingLoop(prefix, sketch.csvData, DOMAIN files)
       IN \E freeMem \in {MinFreeMemory - 1, MinFreeMemory} :
          \E sdBeginOk \in (IF freeMem < MinFreeMemory THEN {FALSE} ELSE BOOLEAN) :
          \E mkdirOk \in (IF sdBeginOk /\ ~rootExists THEN BOOLEAN ELSE {TRUE}) :
          \E openOk \in (IF sdBeginOk /\ mkdirOk THEN BOOLEAN ELSE {TRUE}) :
          \E crash \in (IF output_buffer = "sdcache" THEN BOOLEAN ELSE {FALSE}) :
            beginDataLog(sketch.prefix, sketch.csvData, freeMem, sdBeginOk, mkdirOk,
                         openOk, buf, prefix, loop, crash)

(***************************************************************************)
(* logBytes and logString                                                  *)
(***************************************************************************)
\* the conversion of an int argument to the unsigned char parameter numBytes
UnsignedChar(n) == n % 256

\* a logBytes without the cap
NoCap(numBytes, bufSize) == numBytes

\* if (numBytes > OUTPUT_BUF_SIZE - 1) numBytes = OUTPUT_BUF_SIZE - 1;
CapNumBytes(numBytes, bufSize) == IF numBytes > bufSize - 1 THEN bufSize - 1 ELSE numBytes

\* what file.write(buf, n) can return: n, or a short count
ShortCounts == {1}
WriteResults(n) == {n} \cup {k \in ShortCounts : k < n}

\* the counts a call can meet: file.write is reached only with a file open
DeviceCounts(n) == IF fileOpen THEN WriteResults(n) ELSE {n}

\* a logBytes that reports a count without looking at the file
CountOnly(isOpen, written) == written

\* a return value that reports a short write as a whole 10-byte record
HidesShortCount(isOpen, written) ==
  IF isOpen THEN (IF written = 1 THEN 10 ELSE written) ELSE 0

\* the value logBytes returns
LogBytesReturn(isOpen, written) == IF isOpen THEN written ELSE 0

\* what the write is handed: the caller's buffer, or the malloc'ed copy when
\* buffer == _getOutBuf(); a failed malloc leaves NULL in buf
WriteSource(aliased, mallocOk) ==
  IF aliased THEN (IF mallocOk THEN "copy" ELSE "null") ELSE "caller"

\* a logBytes that writes and does not sync
WriteOnly(isOpen, numBytes, source) ==
  IF isOpen THEN <<OpWrite(numBytes, source)>> ELSE <<>>

\* the device operations logBytes issues
LogBytesOps(isOpen, numBytes, source) ==
  IF isOpen THEN <<OpWrite(numBytes, source), OpSync>> ELSE <<>>

\* the heap operations of one call: malloc(numBytes) when the buffer is the
\* scratch buffer, free(buf) when buf_allocated
HeapOps(isOpen, aliased) ==
  IF isOpen /\ aliased THEN <<"malloc", "free">> ELSE <<>>

\* a logBytes that writes the rest of the buffer after a short count
RetriedWrite(buffer, written, source, garbage) ==
  IF source = "null" THEN [k \in 1..Len(buffer) |-> garbage] ELSE buffer

\* the bytes file.write reads: the first bytes of the buffer handed over; a
\* write from NULL reads whatever lies at address 0
BytesRead(buffer, written, source, garbage) ==
  IF source = "null" THEN [k \in 1..written |-> garbage] ELSE SubSeq(buffer, 1, written)

\* logBytes(buffer, numBytes) as entered from the API function `name`; aliased:
\* buffer == _getOutBuf(); written: what file.write returns; info: what the
\* calling function was given
logBytes(name, kind, buffer, len, aliased, written, info) ==
  LET numBytes == CapNumBytes(UnsignedChar(len), OUTPUT_BUF_SIZE)
  IN /\ ~halted
     /\ \E mallocOk \in (IF fileOpen /\ aliased THEN BOOLEAN ELSE {TRUE}) :
        \E stops \in (IF mallocOk THEN {FALSE} ELSE BOOLEAN) :
        \E garbage \in (IF mallocOk \/ stops THEN {NUL} ELSE GarbageBytes) :
          LET source == WriteSource(aliased, mallocOk)
              record == [op |-> name, kind |-> kind, numBytes |-> numBytes,
                         wasOpen |-> fileOpen, running |-> rtcRunning,
                         handed |-> buffer, len |-> len, info |-> info,
                         aliased |-> aliased,
                         source |-> IF fileOpen THEN source ELSE "none",
                         heap |-> HeapOps(fileOpen, aliased),
                         returned |-> ~stops,
                         ret |-> IF stops THEN 0 ELSE LogBytesReturn(fileOpen, written)]
          IN IF stops
             THEN \* memcpy(NULL, buffer, numBytes): the sketch may die here
                  /\ nCalls < MaxCalls
                  /\ nCalls' = nCalls + 1
                  /\ halted' = TRUE
                  /\ ops' = <<>>
                  /\ call' = record
                  /\ UNCHANGED <<files, layout>>
             ELSE /\ IF fileOpen
                     THEN /\ nCalls < MaxCalls
                          /\ written \in WriteResults(numBytes)
                          /\ nCalls' = nCalls + 1
                          /\ files' = [files EXCEPT ![filePath] =
                                         @ \o BytesRead(buffer, written, source, garbage)]
                          /\ layout' = [layout EXCEPT ![filePath] =
                                          Append(@, [kind |-> kind, n |-> numBytes,
                                                     written |-> written])]
                     ELSE UNCHANGED <<files, layout, nCalls>>
                  /\ halted' = halted
                  /\ ops' = LogBytesOps(fileOpen, numBytes, source)
                  /\ call' = record
     /\ UNCHANGED <<sketch, rootExists, fileOpen, filePath, output_buffer, OUTPUT_BUF_SIZE,
                    rtcRunning>>

\* logString(output_buf): strlen, then logBytes
logString(name, kind, output_buf, aliased, written, info) ==
  logBytes(name, kind, output_buf, Len(output_buf), aliased, written, info)

\* buffers and strings a sketch passes to logBytes and logString itself: 200
\* bytes that start FF FF; "hi\n" and a string of 256 characters
RawBuffers == {[k \in 1..200 |-> IF k <= 2 THEN 255 ELSE 7]}
Strings == {<<104, 105, 10>>, [k \in 1..256 |-> 97]}

LogBytes ==
  \E buffer \in RawBuffers : \E written \in DeviceCounts(Len(buffer)) :
    logBytes("logBytes", "raw", buffer, Len(buffer), FALSE, written, [enc |-> "none"])

LogString ==
  \E str \in Strings :
  \E written \in DeviceCounts(CapNumBytes(UnsignedChar(Len(str)), OUTPUT_BUF_SIZE)) :
    logString("logString", "raw", str, FALSE, written, [enc |-> "none"])

(***************************************************************************)
(* The CSV encoders: logString of the line the SDK's ...ToCSV left in the  *)
(* scratch buffer.                                                         *)
(***************************************************************************)
\* "1,a,2\n": a line as the SDK formats it
CsvLines == {<<49, 44, 97, 44, 50, 10>>}

LogCsv(sensorName) ==
  \E line \in CsvLines : \E written \in DeviceCounts(Len(line)) :
    logString("log", "line", line, TRUE, written, [enc |-> "log"])

logAcceleration == LogCsv("acceleration")
logMagnetic == LogCsv("magnetic")
logGyro == LogCsv("gyro")
logTemperature == LogCsv("temperature")
logLuminosity == LogCsv("luminosity")
logUVLight == LogCsv("uvlight")
logOrientation == LogCsv("orientation")
logPressure == LogCsv("pressure")

(***************************************************************************)
(* The binary encoders                                                     *)
(***************************************************************************)
ARDUSAT_SENSOR_TYPE_ACCELERATION == 0
ARDUSAT_SENSOR_TYPE_MAGNETIC == 1
ARDUSAT_SENSOR_TYPE_GYRO == 2
ARDUSAT_SENSOR_TYPE_ORIENTATION == 3
ARDUSAT_SENSOR_TYPE_TEMPERATURE == 4
ARDUSAT_SENSOR_TYPE_LUMINOSITY == 5
ARDUSAT_SENSOR_TYPE_UV == 6
\* an enum in which pressure shares the tag of UV
PressureTaggedAsUV == ARDUSAT_SENSOR_TYPE_UV

ARDUSAT_SENSOR_TYPE_PRESSURE == 7

\* a 32-bit value as it lies in memory on the AVR (little-endian)
Bytes32(v) == <<v % 256, (v \div 256) % 256, (v \div 65536) % 256, (v \div 16777216) % 256>>

\* a header laid out with 32-bit alignment: two bytes of padding
PaddedHeader(type, id, timestamp) == <<type % 256, id % 256, 0, 0>> \o Bytes32(timestamp)

\* a header with id and type exchanged
SwappedHeader(type, id, timestamp) == <<id % 256, type % 256>> \o Bytes32(timestamp)

\* a header stamped with a counter of the session instead of the reading's time
CountingHeader(type, id, timestamp) == <<type % 256, id % 256>> \o Bytes32(nCalls)

\* uint8_t type; uint8_t id; uint32_t timestamp;
bin_data_header(type, id, timestamp) == <<type % 256, id % 256>> \o Bytes32(timestamp)

\* three floats copied in another order
Bin3Reordered(type, id, timestamp, a, b, c) == bin_data_header(type, id, timestamp) \o a \o c \o b

\* the structs of three floats and of one float, as bytes (no padding on the
\* AVR); a float is the four bytes it occupies in memory
Bin3(type, id, timestamp, a, b, c) == bin_data_header(type, id, timestamp) \o a \o b \o c
Bin1(type, id, timestamp, a) == bin_data_header(type, id, timestamp) \o a

\* init_data_struct and the field copies, then logBytes(&bin_data, sizeof ...)
binaryLog(name, bin_data, written, info) ==
  logBytes(name, "sensor", bin_data, Len(bin_data), FALSE, written, info)

binaryLogAcceleration ==
  \E sensorId \in {sketch.sensorId}, timestamp \in {sketch.timestamp}, v \in {sketch.vector},
     written \in DeviceCounts(18) :
    LET data == [header |-> [timestamp |-> timestamp], x |-> v[1], y |-> v[2], z |-> v[3]]
    IN binaryLog("binaryLog",
                 Bin3(ARDUSAT_SENSOR_TYPE_ACCELERATION, sensorId, data.header.timestamp,
                      data.x, data.y, data.z), written,
                 [enc |-> "binaryLogAcceleration", sensorId |-> sensorId,
                  timestamp |-> data.header.timestamp, payload |-> <<data.x, data.y, data.z>>])

binaryLogMagnetic ==
  \E sensorId \in {sketch.sensorId}, timestamp \in {sketch.timestamp}, v \in {sketch.vector},
     written \in DeviceCounts(18) :
    LET data == [header |-> [timestamp |-> timestamp], x |-> v[1], y |-> v[2], z |-> v[3]]
    IN binaryLog("binaryLog",
                 Bin3(ARDUSAT_SENSOR_TYPE_MAGNETIC, sensorId, data.header.timestamp,
                      data.x, data.y, data.z), written,
                 [enc |-> "binaryLogMagnetic", sensorId |-> sensorId,
                  timestamp |-> data.header.timestamp, payload |-> <<data.x, data.y, data.z>>])

binaryLogGyro ==
  \E sensorId \in {sketch.sensorId}, timestamp \in {sketch.timestamp}, v \in {sketch.vector},
     written \in DeviceCounts(18) :
    LET data == [header |-> [timestamp |-> timestamp], x |-> v[1], y |-> v[2], z |-> v[3]]
    IN binaryLog("binaryLog",
                 Bin3(ARDUSAT_SENSOR_TYPE_GYRO, sensorId, data.header.timestamp,
                      data.x, data.y, data.z), written,
                 [enc |-> "binaryLogGyro", sensorId |-> sensorId,
                  timestamp |-> data.header.timestamp, payload |-> <<data.x, data.y, data.z>>])

binaryLogTemperature ==
  \E sensorId \in {sketch.sensorId}, timestamp \in {sketch.timestamp}, f \in {sketch.scalar},
     written \in DeviceCounts(10) :
    LET data == [header |-> [timestamp |-> timestamp], t |-> f]
    IN binaryLog("binaryLog",
                 Bin1(ARDUSAT_SENSOR_TYPE_TEMPERATURE, sensorId, data.header.timestamp,
                      data.t), written,
                 [enc |-> "binaryLogTemperature", sensorId |-> sensorId,
                  timestamp |-> data.header.timestamp, payload |-> <<data.t>>])

binaryLogLuminosity ==
  \E sensorId \in {sketch.sensorId}, timestamp \in {sketch.timestamp}, f \in {sketch.scalar},
     written \in DeviceCounts(10) :
    LET data == [header |-> [timestamp |-> timestamp], lux |-> f]
    IN binaryLog("binaryLog",
                 Bin1(ARDUSAT_SENSOR_TYPE_LUMINOSITY, sensorId, data.header.timestamp,
                      data.lux), written,
                 [enc |-> "binaryLogLuminosity", sensorId |-> sensorId,
                  timestamp |-> data.header.timestamp, payload |-> <<data.lux>>])

binaryLogUVLight ==
  \E sensorId \in {sketch.sensorId}, timestamp \in {sketch.timestamp}, f \in {sketch.scalar},
     written \in DeviceCounts(10) :
    LET data == [header |-> [timestamp |-> timestamp], uvindex |-> f]
    IN binaryLog("binaryLog",
                 Bin1(ARDUSAT_SENSOR_TYPE_UV, sensorId, data.header.timestamp,
                      data.uvindex), written,
                 [enc |-> "binaryLogUVLight", sensorId |-> sensorId,
                  timestamp |-> data.header.timestamp, payload |-> <<data.uvindex>>])

binaryLogOrientation ==
  \E sensorId \in {sketch.sensorId}, timestamp \in {sketch.timestamp}, v \in {sketch.vector},
     written \in DeviceCounts(18) :
    LET data == [header |-> [timestamp |-> timestamp],
                 roll |-> v[1], pitch |-> v[2], heading |-> v[3]]
    IN binaryLog("binaryLog",
                 Bin3(ARDUSAT_SENSOR_TYPE_ORIENTATION, sensorId, data.header.timestamp,
                      data.roll, data.pitch, data.heading), written,
                 [enc |-> "binaryLogOrientation", sensorId |-> sensorId,
                  timestamp |-> data.header.timestamp, payload |-> <<data.roll, data.pitch, data.heading>>])

binaryLogPressure ==
  \E sensorId \in {sketch.sensorId}, timestamp \in {sketch.timestamp}, f \in {sketch.scalar},
     written \in DeviceCounts(10) :
    LET data == [header |-> [timestamp |-> timestamp], pressure |-> f]
    IN binaryLog("binaryLog",
                 Bin1(ARDUSAT_SENSOR_TYPE_PRESSURE, sensorId, data.header.timestamp,
                      data.pressure), written,
                 [enc |-> "binaryLogPressure", sensorId |-> sensorId,
                  timestamp |-> data.header.timestamp, payload |-> <<data.pressure>>])

(***************************************************************************)
(* The time reference: logRTCTimestamp and binaryLogRTCTimestamp           *)
(***************************************************************************)
\* what RTC.now().unixtime() and millis() return
UnixTimes == {1420070400}
Millis == {1000}

\* sprintf(_getOutBuf(), "time: %lu at %lu\n", now.unixtime(), curr_millis)
CsvTimeHeader(unixtime, curr_millis) ==
  <<116, 105, 109, 101, 58, 32>> \o Decimal(unixtime) \o <<32, 97, 116, 32>>
    \o Decimal(curr_millis) \o <<10>>

\* a binary header without the 0xFFFF marker
UnmarkedTimeHeader(unixtime, curr_millis) ==
  <<0, 0>> \o Bytes32(unixtime) \o Bytes32(curr_millis)

\* a header whose unixtime went through a 16-bit variable
TruncatedTimeHeader(unixtime, curr_millis) ==
  <<255, 255>> \o Bytes32(unixtime % 65536) \o Bytes32(curr_millis)

\* buf[0] = buf[1] = 0xFF; memcpy(buf + 2, &unixtime, 4); memcpy(buf + 6, &curr_millis, 4)
BinaryTimeHeader(unixtime, curr_millis) ==
  <<255, 255>> \o Bytes32(unixtime) \o Bytes32(curr_millis)

\* a clock query that never fails
AlwaysRunning(running) == 0

\* _getCurrentTime(): 0 when RTC.isrunning(), -1 otherwise
getCurrentTime(running) == IF running THEN 0 ELSE -1

\* _getCurrentTime() returned -1: the callers return 0 and do nothing else
NoTimestamp(name) ==
  /\ ~halted
  /\ getCurrentTime(rtcRunning) # 0
  /\ call' = [op |-> name, kind |-> "time", numBytes |-> 0, wasOpen |-> fileOpen,
              running |-> FALSE, handed |-> <<>>, len |-> 0, info |-> [enc |-> "none"],
              aliased |-> FALSE,
              source |-> "none", heap |-> <<>>, returned |-> TRUE, ret |-> 0]
  /\ ops' = <<>>
  /\ UNCHANGED <<sketch, files, rootExists, fileOpen, filePath, output_buffer,
                 OUTPUT_BUF_SIZE, rtcRunning, halted, layout, nCalls>>

logRTCTimestamp ==
  \/ NoTimestamp("logRTCTimestamp")
  \/ /\ getCurrentTime(rtcRunning) = 0
     /\ \E unixtime \in UnixTimes, curr_millis \in Millis, written \in DeviceCounts(25) :
          logString("logRTCTimestamp", "time", CsvTimeHeader(unixtime, curr_millis),
                    TRUE, written, [unixtime |-> unixtime, curr_millis |-> curr_millis])

binaryLogRTCTimestamp ==
  \/ NoTimestamp("binaryLogRTCTimestamp")
  \/ /\ getCurrentTime(rtcRunning) = 0
     /\ \E unixtime \in UnixTimes, curr_millis \in Millis, written \in DeviceCounts(10) :
          logBytes("binaryLogRTCTimestamp", "time",
                   BinaryTimeHeader(unixtime, curr_millis), 10, FALSE, written,
                   [unixtime |-> unixtime, curr_millis |-> curr_millis])

(***************************************************************************)
(* The sketch calls the API in any order.                                  *)
(***************************************************************************)
Next ==
  \/ BeginDataLog
  \/ LogBytes
  \/ LogString
  \/ logAcceleration
  \/ logMagnetic
  \/ logGyro
  \/ logTemperature
  \/ logLuminosity
  \/ logUVLight
  \/ logOrientation
  \/ logPressure
  \/ binaryLogAcceleration
  \/ binaryLogMagnetic
  \/ binaryLogGyro
  \/ binaryLogTemperature
  \/ binaryLogLuminosity
  \/ binaryLogUVLight
  \/ binaryLogOrientation
  \/ binaryLogPressure
  \/ logRTCTimestamp
  \/ binaryLogRTCTimestamp

Spec == Init /\ [][Next]_vars

(***************************************************************************)
(* The binary encoders on their own: every encoder applied to readings     *)
(* drawn from wider sets, before beginDataLog and with a log file open.    *)
(***************************************************************************)
\* ids 0, 1, 255; timestamps 0, 12345, 2^31 - 1; floats 1.5, -2.25, 0.0 and
\* the bytes FF FF 7F 7F (FLT_MAX), 01 02 03 04
EncoderSensorIds == {0, 1, 255}
EncoderTimestamps == {0, 12345, 2147483647}
EncoderFloats == {<<0, 0, 192, 63>>, <<255, 255, 127, 127>>}
EncoderVectors ==
  { << <<0, 0, 192, 63>>, <<0, 0, 16, 192>>, <<0, 0, 0, 0>> >>,
    << <<255, 255, 127, 127>>, <<1, 2, 3, 4>>, <<0, 0, 192, 63>> >> }

\* the log file of a sketch that called beginDataLog(pin, "MYLOG", false) on
\* an empty card
FirstLog == BuildName(0, CopyPrefix(CallerBuffer(MYLOG), NUL), FALSE).fileName

EncoderInit ==
  /\ sketch \in Sketches({[prefix |-> MYLOG, csvData |-> FALSE]}, EncoderSensorIds,
                         EncoderTimestamps, EncoderVectors, EncoderFloats)
  /\ fileOpen \in BOOLEAN
  /\ files = IF fileOpen THEN (FirstLog :> <<>>) ELSE <<>>
  /\ layout = files
  /\ filePath = IF fileOpen THEN FirstLog ELSE <<>>
  /\ rootExists = fileOpen
  /\ output_buffer = IF fileOpen THEN "sdcache" ELSE "NULL"
  /\ OUTPUT_BUF_SIZE \in (IF fileOpen THEN {512} ELSE InitialBufSizes)
  /\ rtcRunning \in BOOLEAN
  /\ halted = FALSE
  /\ call = [op |-> "none"]
  /\ ops = <<>>
  /\ nCalls = IF fileOpen THEN 1 ELSE 0

EncoderNext ==
  \/ binaryLogAcceleration
  \/ binaryLogMagnetic
  \/ binaryLogGyro
  \/ binaryLogTemperature
  \/ binaryLogLuminosity
  \/ binaryLogUVLight
  \/ binaryLogOrientation
  \/ binaryLogPressure

EncoderSpec == EncoderInit /\ [][EncoderNext]_vars

(***************************************************************************)
(* Reading the record of the last call.                                    *)
(***************************************************************************)
\* the candidate paths a call of beginDataLog tested with sd.exists, in order
CandidatesTested(o) ==
  LET tests == SelectSeq(o, LAMBDA e : e[1] = "sd.exists" /\ e[2] # rootPath)
  IN [k \in 1..Len(tests) |-> tests[k][2]]

\* the 8.3 base name of a path under rootPath: what lies between "/data/" and
\* the dot of the extension
BaseName(path) == SubSeq(path, Len(rootPath) + 2, Len(path) - 4)

\* the first n characters of a string (all of it when it is shorter)
FirstChars(str, n) == SubSeq(str, 1, IF n < Len(str) THEN n ELSE Len(str))

\* a call of beginDataLog that came back to the sketch
BeginReturned(c) == c.op = "beginDataLog" /\ c.returned

\* the functions that write through logBytes
LogOps == {"logBytes", "logString", "log", "binaryLog",
           "logRTCTimestamp", "binaryLogRTCTimestamp"}
TimestampOps == {"logRTCTimestamp", "binaryLogRTCTimestamp"}

\* the time reference records a file holds
TimeRecords(chunks) == SelectSeq(chunks, LAMBDA ch : ch.kind = "time")

(***************************************************************************)
(* C1. The candidate names.                                                *)
(***************************************************************************)
\* the number of prefix characters the documentation gives a candidate
DocumentedKeep(i) == IF i < 10 THEN 7 ELSE IF i < 100 THEN 6 ELSE 5

\* the candidate of index i as documented: the first 7, 6 or 5 characters of
\* the prefix, the index in decimal, and the extension
DocumentedName(fileNamePrefix, i, csvData) ==
  rootPath \o <<47>> \o FirstChars(fileNamePrefix, DocumentedKeep(i)) \o Decimal(i)
    \o <<46>> \o Extension(csvData)

\* C1: the loop starts at index 0 and the k-th path it tests is the candidate
\* of index k-1: rootPath "/" the first 7 characters of the prefix when the
\* index has one digit, the first 6 when it has two, the first 5 when it has
\* three, then the index in decimal, a dot, and "csv" or "bin" by csvData.
C1_CandidateNames ==
  (BeginReturned(call) /\ call.searched) =>
    LET tested == CandidatesTested(ops)
    IN /\ Len(tested) >= 1
       /\ \A k \in 1..Len(tested) :
            tested[k] = DocumentedName(call.fileNamePrefix, k - 1, call.csvData)

(***************************************************************************)
(* C2. The file chosen is the first free candidate.                        *)
(***************************************************************************)
\* C2: a call of beginDataLog that returns true has opened the candidate of
\* the smallest index whose path did not exist when the call began; the
\* candidates of smaller indices existed and keep their contents, and the
\* opened path is new on the card.
C2_SmallestFreeIndex ==
  [][ (BeginReturned(call') /\ call'.ret) =>
        LET tested == CandidatesTested(ops')
        IN /\ call'.created
           /\ fileOpen'
           /\ Len(tested) = call'.index + 1
           /\ filePath' = tested[Len(tested)]
           /\ filePath' \notin DOMAIN files
           /\ DOMAIN files' = DOMAIN files \cup {filePath'}
           /\ \A k \in 1..(Len(tested) - 1) : tested[k] \in DOMAIN files
           /\ \A p \in DOMAIN files : files'[p] = files[p] ]_vars

(***************************************************************************)
(* C3. True means a file was opened by this call.                          *)
(***************************************************************************)
\* C3: every call of beginDataLog that returns true has created and opened a
\* log file during that same call, also when a file opened by an earlier
\* call is still open; a call that opens nothing returns false.
C3_TrueMeansOpened ==
  BeginReturned(call) => (call.ret <=> call.created)

(***************************************************************************)
(* C4. A full card.                                                        *)
(***************************************************************************)
\* the first index that has no candidate
IndexLimit == 1000

\* every candidate path of the indices 0 .. IndexLimit-1 is on the card
AllCandidatesExist(fileNamePrefix, csvData, card) ==
  /\ Cardinality(DOMAIN card) >= IndexLimit
  /\ LET names == NamesBuilt(0, IndexLimit,
                             [i |-> 0,
                              prefix |-> CopyPrefix(CallerBuffer(fileNamePrefix), NUL),
                              names |-> <<>>], csvData).names
     IN /\ Len(names) = IndexLimit
        /\ \A k \in 1..Len(names) : names[k] \in DOMAIN card

\* C4: when the candidate paths of all indices 0 .. 999 exist and no file is
\* open, a call of beginDataLog that reaches the naming loop tests the 1000
\* candidates and stops at index 1000; the call creates and opens nothing,
\* leaves the card as it was, and returns false.
C4_Exhausted ==
  [][ LET full == /\ BeginReturned(call') /\ ~fileOpen
                  /\ AllCandidatesExist(sketch.prefix, sketch.csvData, files)
          nothingOpened ==
                  /\ BeginReturned(call')
                  /\ call'.ret = FALSE
                  /\ ~call'.created
                  /\ ~fileOpen'
                  /\ files' = files
                  /\ \A k \in 1..Len(ops') : ops'[k][1] # "sd.open"
                  /\ call'.searched =>
                       /\ call'.index = IndexLimit
                       /\ Len(CandidatesTested(ops')) = IndexLimit
      IN nothingOpened \/ ~full ]_vars

\* C4 (reached): a call searched a full card up to index 1000 and returned false
C4_StoppedAtLimit ==
  /\ BeginReturned(call) /\ call.searched /\ ~call.wasOpen
  /\ call.index = IndexLimit /\ call.ret = FALSE
  /\ Cardinality(DOMAIN files) = IndexLimit

(***************************************************************************)
(* C5. The base name fits 8.3.                                             *)
(***************************************************************************)
\* C5: the base name of every candidate a call builds (the part between
\* rootPath "/" and the extension) has at most 8 characters and is some
\* initial part of the first 7 bytes of the caller's prefix followed by the
\* index in decimal; no other byte appears in it.
C5_BaseNameFits ==
  (BeginReturned(call) /\ call.searched) =>
    LET tested == CandidatesTested(ops)
    IN \A k \in 1..Len(tested) :
         LET base == BaseName(tested[k])
         IN /\ Len(base) <= 8
            /\ \E m \in 0..7 :
                 /\ m <= Len(call.fileNamePrefix)
                 /\ base = SubSeq(call.fileNamePrefix, 1, m) \o Decimal(k - 1)

\* C5 (reached): a call on a prefix longer than 7 bytes built a candidate of a
\* three-digit index
C5_LongPrefixThreeDigits ==
  /\ BeginReturned(call) /\ call.searched
  /\ Len(call.fileNamePrefix) > 7
  /\ call.index >= 100
  /\ Len(CandidatesTested(ops)) > 100

(***************************************************************************)
(* C6. The copy of the prefix.                                             *)
(***************************************************************************)
\* C6: beginDataLog reads min(7, available) bytes of the caller's prefix
\* buffer, where available counts the bytes of the buffer with its
\* terminator: it never reads past the end of a buffer shorter than 7 bytes.
C6_NoOverRead ==
  (call.op = "beginDataLog" /\ call.returned) =>
    /\ call.copied = (IF call.available < 7 THEN call.available ELSE 7)
    /\ call.overread = 0

StampedBy(c, wasOpen) ==
  c.op \in TimestampOps /\ c.running /\ wasOpen /\ c.returned

C9_NoRecordWithoutClock ==
  [][ ~rtcRunning =>
        /\ call'.op \in TimestampOps =>
             /\ call'.ret = 0 /\ call'.numBytes = 0 /\ ops' = <<>>
             /\ UNCHANGED <<files, layout, fileOpen, filePath>>
        /\ \A p \in DOMAIN layout' :
             /\ TimeRecords(layout'[p]) = <<>>
             /\ (layout'[p] # <<>> /\ layout'[p][1].kind = "sensor"
                 /\ layout'[p][1].written >= 1) =>
                  /\ files'[p][1] \in ARDUSAT_SENSOR_TYPE_ACCELERATION
                                        .. ARDUSAT_SENSOR_TYPE_PRESSURE
                  /\ files'[p][1] # 255 ]_vars

\* C9 (reached): with the clock stopped, a timestamp call on an open file
\* whose first write was a binary sensor record
C9_SkippedAfterRecord ==
  /\ ~rtcRunning /\ fileOpen
  /\ call.op = "binaryLogRTCTimestamp" /\ call.wasOpen /\ call.ret = 0
  /\ layout[filePath] # <<>>
  /\ layout[filePath][1].kind = "sensor"

(***************************************************************************)
(* C10. No file is open.                                                   *)
(***************************************************************************)
\* C10: while no log file is open, logBytes and every function that writes
\* through it (logString, the log and binaryLog encoders, the timestamp
\* functions) return 0, issue no device operation, and leave the card, the
\* File object and the buffers as they were.
C10_NothingWithoutFile ==
  [][ (call'.op \in LogOps /\ ~fileOpen) =>
        /\ call'.ret = 0
        /\ ops' = <<>>
        /\ UNCHANGED <<files, layout, rootExists, fileOpen, filePath,
                       output_buffer, OUTPUT_BUF_SIZE>> ]_vars

\* C10 (reached): a binary encoder was called with no file open and returned 0
C10_EncoderWithoutFile ==
  call.op = "binaryLog" /\ ~call.wasOpen /\ ~fileOpen /\ call.ret = 0

(***************************************************************************)
(* C11. Every write is synced.                                             *)
(***************************************************************************)
\* C11: in every call that goes through logBytes, each file.write is followed
\* at once by file.sync, with no device operation between them, and a call
\* on an open file that returns has issued exactly that pair; no call leaves
\* a write without its sync.
C11_WriteThenSync ==
  call.op \in LogOps =>
    /\ \A k \in 1..Len(ops) :
         ops[k][1] = "file.write" => (k < Len(ops) /\ ops[k + 1] = OpSync)
    /\ (call.wasOpen /\ call.returned /\ call.numBytes > 0 /\ call.source # "none") =>
         /\ Len(ops) = 2
         /\ ops[1][1] = "file.write"
         /\ ops[2] = OpSync

\* C11 (reached): a binary encoder wrote a record to the open file
C11_WroteAndSynced ==
  /\ call.op = "binaryLog" /\ call.wasOpen
  /\ ops = <<OpWrite(call.numBytes, "caller"), OpSync>>

(***************************************************************************)
(* C12. The scratch buffer is never handed to the driver.                  *)
(***************************************************************************)
\* C12: whenever the buffer passed to logBytes is the scratch buffer and a
\* file is open, file.write is handed a separate copy that holds the same
\* numBytes bytes, never the scratch buffer and never anything else, and
\* the copy is freed before logBytes returns.
C12_CopyHanded ==
  (call.op \in LogOps /\ call.aliased /\ call.wasOpen) =>
    /\ call.returned
    /\ call.source = "copy"
    /\ call.heap = <<"malloc", "free">>
    /\ ops = <<OpWrite(call.numBytes, "copy"), OpSync>>
    /\ LET bytes == files[filePath]
           n == layout[filePath][Len(layout[filePath])].written
       IN SubSeq(bytes, Len(bytes) - n + 1, Len(bytes)) = SubSeq(call.handed, 1, n)

(***************************************************************************)
(* The binary records, as the documentation lays them out.                 *)
(***************************************************************************)
\* the encoders of three floats and of one float
ThreeFloatEncoders == {"binaryLogAcceleration", "binaryLogMagnetic", "binaryLogGyro",
                       "binaryLogOrientation"}
OneFloatEncoders == {"binaryLogTemperature", "binaryLogLuminosity", "binaryLogUVLight",
                     "binaryLogPressure"}

\* the type tag that belongs to each encoder
TypeTag(enc) ==
  CASE enc = "binaryLogAcceleration" -> ARDUSAT_SENSOR_TYPE_ACCELERATION
    [] enc = "binaryLogMagnetic" -> ARDUSAT_SENSOR_TYPE_MAGNETIC
    [] enc = "binaryLogGyro" -> ARDUSAT_SENSOR_TYPE_GYRO
    [] enc = "binaryLogOrientation" -> ARDUSAT_SENSOR_TYPE_ORIENTATION
    [] enc = "binaryLogTemperature" -> ARDUSAT_SENSOR_TYPE_TEMPERATURE
    [] enc = "binaryLogLuminosity" -> ARDUSAT_SENSOR_TYPE_LUMINOSITY
    [] enc = "binaryLogUVLight" -> ARDUSAT_SENSOR_TYPE_UV
    [] enc = "binaryLogPressure" -> ARDUSAT_SENSOR_TYPE_PRESSURE

\* the unsigned 32-bit value held in four bytes, lowest byte first
Value32(b) == b[1] + 256 * b[2] + 65536 * b[3] + 16777216 * b[4]

\* a record read back: the 6-byte header, then the floats, 4 bytes each
Decode(rec) ==
  [type |-> rec[1], id |-> rec[2], timestamp |-> Value32(SubSeq(rec, 3, 6)),
   payload |-> [k \in 1..((Len(rec) - 6) \div 4) |-> SubSeq(rec, 4 * k + 3, 4 * k + 6)]]

\* a call of a binary encoder
Encoded(c) == c.op = "binaryLog"

(***************************************************************************)
(* C13. The record sizes.                                                  *)
(***************************************************************************)
\* C13: each binary encoder hands logBytes a record of exactly 18 bytes
\* (acceleration, magnetic, gyro, orientation) or exactly 10 bytes
\* (temperature, luminosity, UV, pressure): the 6-byte header and 3 floats or
\* 1 float of 4 bytes, nothing between them, and no other length.
C13_RecordSizes ==
  Encoded(call) =>
    /\ call.info.enc \in ThreeFloatEncoders \cup OneFloatEncoders
    /\ call.len = (IF call.info.enc \in ThreeFloatEncoders THEN 18 ELSE 10)
    /\ Len(call.handed) = call.len
    /\ call.len = 6 + 4 * Len(call.info.payload)

\* C13 (reached): the pressure encoder handed over its record
C13_PressureRecord ==
  Encoded(call) /\ call.info.enc = "binaryLogPressure" /\ call.len = 10

(***************************************************************************)
(* C14. The record header.                                                 *)
(***************************************************************************)
\* C14: the first 6 bytes of every record are the type tag of the encoder's
\* own sensor type, the sensorId argument, and the 4 bytes of the reading's
\* own header timestamp (the value in the reading, not a clock read when the
\* record is built).
C14_RecordHeader ==
  Encoded(call) =>
    /\ Len(call.handed) >= 6
    /\ call.handed[1] = TypeTag(call.info.enc)
    /\ call.handed[2] = sketch.sensorId
    /\ Value32(SubSeq(call.handed, 3, 6)) = sketch.timestamp

\* C14 (reached): the orientation encoder built a record for id 255 and the
\* largest timestamp
C14_OrientationHeader ==
  /\ Encoded(call) /\ call.info.enc = "binaryLogOrientation"
  /\ sketch.sensorId = 255 /\ sketch.timestamp = 2147483647

(***************************************************************************)
(* C15. Round trip.                                                        *)
(***************************************************************************)
\* C15: reading a record back (header, then the floats in their order, each
\* float as the 4 bytes it is) gives the type of the encoder, the sensorId,
\* the timestamp and the payload values of the reading, in the same order.
C15_RoundTrip ==
  Encoded(call) =>
    Decode(call.handed) =
      [type |-> TypeTag(call.info.enc), id |-> sketch.sensorId,
       timestamp |-> sketch.timestamp,
       payload |-> IF call.info.enc \in ThreeFloatEncoders
                   THEN sketch.vector ELSE <<sketch.scalar>>]

\* C15 (reached): a gyro reading of three different floats was encoded
C15_GyroVector ==
  /\ Encoded(call) /\ call.info.enc = "binaryLogGyro"
  /\ sketch.vector[1] # sketch.vector[2] /\ sketch.vector[2] # sketch.vector[3]
  /\ Len(call.handed) = 18

(***************************************************************************)
(* C16. The encoding is deterministic.                                     *)
(***************************************************************************)
\* the record of a reading by the documented layout alone
DocumentedRecord(type, id, timestamp, payload) ==
  <<type, id, timestamp % 256, (timestamp \div 256) % 256,
    (timestamp \div 65536) % 256, (timestamp \div 16777216) % 256>>
    \o (IF Len(payload) = 3 THEN payload[1] \o payload[2] \o payload[3] ELSE payload[1])

\* C16: two calls of the same encoder with the same sensorId and the same
\* reading hand logBytes the same bytes; the bytes are those the layout
\* gives for the arguments, whatever the state of the session (file open or
\* not, what was written before, clock running or not).
C16_Deterministic ==
  [][ /\ (Encoded(call) /\ Encoded(call') /\ call'.info = call.info) =>
           (call'.handed = call.handed /\ call'.len = call.len)
      /\ Encoded(call') =>
           call'.handed = DocumentedRecord(TypeTag(call'.info.enc), call'.info.sensorId,
                                           call'.info.timestamp, call'.info.payload)
    ]_vars

\* C16 (reached): the open file ends with the same whole record twice, from
\* two calls of one encoder
C16_SameRecordTwice ==
  /\ Encoded(call) /\ call.wasOpen /\ fileOpen
  /\ Len(layout[filePath]) >= 2
  /\ LET bytes == files[filePath]
         n == call.len
     IN /\ Len(bytes) >= 2 * n
        /\ SubSeq(bytes, Len(bytes) - n + 1, Len(bytes)) = call.handed
        /\ SubSeq(bytes, Len(bytes) - 2 * n + 1, Len(bytes) - n) = call.handed

(***************************************************************************)
(* C17. The binary time reference record.                                  *)
(***************************************************************************)
\* C17: the record binaryLogRTCTimestamp hands to logBytes is exactly 10
\* bytes: 0xFF, 0xFF, the whole 32-bit unixtime read from the clock, and the
\* 32-bit millis() value taken with it; no bit of the clock value is lost.
C17_TimeRecord ==
  (call.op = "binaryLogRTCTimestamp" /\ call.running) =>
    /\ call.len = 10 /\ call.numBytes = 10 /\ Len(call.handed) = 10
    /\ call.handed[1] = 255 /\ call.handed[2] = 255
    /\ call.info.unixtime \in UnixTimes /\ call.info.curr_millis \in Millis
    /\ Value32(SubSeq(call.handed, 3, 6)) = call.info.unixtime
    /\ Value32(SubSeq(call.handed, 7, 10)) = call.info.curr_millis

\* C17 (reached): a record with a unixtime of more than 16 bits went to the
\* open file whole
C17_WideUnixtime ==
  /\ call.op = "binaryLogRTCTimestamp" /\ call.running /\ call.wasOpen
  /\ call.ret = 10 /\ call.info.unixtime > 65535

(***************************************************************************)
(* C18. The free-memory guard.                                             *)
(***************************************************************************)
\* C18: when freeMemory() is below 400, beginDataLog does not call sd.begin,
\* does not check for the directory or enter the naming loop, creates no
\* directory and no file, and returns false.
C18_LowMemoryAborts ==
  (BeginReturned(call) /\ call.lowMem) =>
    /\ ops = <<>>
    /\ ~call.searched /\ ~call.created
    /\ call.ret = FALSE

C20_EncoderReturn ==
  (Encoded(call) /\ call.returned) =>
    IF ~call.wasOpen
    THEN call.ret = 0 /\ ops = <<>>
    ELSE LET chunk == layout[filePath][Len(layout[filePath])]
         IN /\ call.ret = chunk.written
            /\ chunk.n = call.len
            /\ chunk.written = chunk.n => (call.ret = call.len /\ call.ret \in {10, 18})

\* C20 (reached): the device took one byte of an 18-byte record and the
\* encoder returned 1
C20_ShortCount ==
  /\ Encoded(call) /\ call.wasOpen /\ call.len = 18 /\ call.ret = 1
  /\ layout[filePath][Len(layout[filePath])].written = 1

(***************************************************************************)
(* C21. The binary stream.                                                 *)
(***************************************************************************)
\* the length of the record that starts with this byte in a binary file:
\* 0xFF starts a time reference record, a type tag a sensor record
RecordLength(first) ==
  IF first = 255 THEN 10
  ELSE IF first \in {ARDUSAT_SENSOR_TYPE_ACCELERATION, ARDUSAT_SENSOR_TYPE_MAGNETIC,
                     ARDUSAT_SENSOR_TYPE_GYRO, ARDUSAT_SENSOR_TYPE_ORIENTATION} THEN 18
  ELSE IF first \in {ARDUSAT_SENSOR_TYPE_TEMPERATURE, ARDUSAT_SENSOR_TYPE_LUMINOSITY,
                     ARDUSAT_SENSOR_TYPE_UV, ARDUSAT_SENSOR_TYPE_PRESSURE} THEN 10
  ELSE 0

\* the bytes are whole records, one after the other
RECURSIVE WholeRecords(_)
WholeRecords(bytes) ==
  IF bytes = <<>> THEN TRUE
  ELSE LET n == RecordLength(bytes[1])
       IN /\ n > 0
          /\ Len(bytes) >= n
          /\ WholeRecords(SubSeq(bytes, n + 1, Len(bytes)))

\* the file was written by binary encoders only, after at most one binary
\* time reference record at its start
BinaryOnly(chunks) ==
  \A k \in 1..Len(chunks) :
    \/ chunks[k].kind = "sensor"
    \/ k = 1 /\ chunks[k].kind = "time" /\ chunks[k].n = 10

\* C21: the open file of a binary session written by binary encoder calls
\* only is an optional 10-byte time reference record followed by whole
\* sensor records of 10 or 18 bytes in call order: every write left its
\* whole record, so no partial record is in the stream.
C21_WholeRecordStream ==
  (fileOpen /\ ~sketch.csvData /\ BinaryOnly(layout[filePath])) =>
    /\ \A k \in 1..Len(layout[filePath]) :
         /\ layout[filePath][k].written = layout[filePath][k].n
         /\ layout[filePath][k].n \in {10, 18}
    /\ WholeRecords(files[filePath])

(***************************************************************************)
(* C22. The root directory.                                                *)
(***************************************************************************)
\* C22: a beginDataLog that gets past sd.begin checks for /data next, once,
\* before it checks any candidate: when /data is missing it calls mkdir
\* exactly once, right after the check, when /data exists it never calls
\* mkdir, and when mkdir fails it checks no candidate, opens nothing and
\* creates no file.
C22_RootDirectoryFirst ==
  [][ (call'.op = "beginDataLog" /\ Len(ops') >= 2) =>
        LET n == Len(ops')
        IN /\ ops'[1] = OpSdBegin /\ ops'[2] = OpExists(rootPath)
           /\ \A k \in 3..n : ops'[k] # OpExists(rootPath)
           /\ \A k \in 1..n : ops'[k] = OpMkdir(rootPath) => k = 3
           /\ IF rootExists
              THEN (n >= 3 => ops'[3] # OpMkdir(rootPath)) /\ rootExists'
              ELSE /\ n >= 3 /\ ops'[3] = OpMkdir(rootPath)
                   /\ ~rootExists' =>
                        /\ n = 3
                        /\ files' = files
                        /\ ~call'.created /\ ~call'.searched
    ]_vars

\* C22 (reached): /data was missing, mkdir made it, and the loop went on to
\* check a candidate
C22_DirectoryMade ==
  /\ BeginReturned(call) /\ call.searched
  /\ Len(ops) >= 4
  /\ ops[2] = OpExists(rootPath) /\ ops[3] = OpMkdir(rootPath)
  /\ ops[4][1] = "sd.exists" /\ rootExists

(***************************************************************************)
(* C23. The naming loop ends.                                              *)
(***************************************************************************)
\* a call of beginDataLog that entered the naming loop
Searched(c) == c.op = "beginDataLog" /\ "searched" \in DOMAIN c /\ c.searched

\* C23: the naming loop always ends: it checks the candidates of the indices
\* 0, 1, 2, ... in this order, one check per index, at most 1000 checks in
\* all, and it opens at most one file, after its last check.
C23_LoopTerminates ==
  Searched(call) =>
    LET tested == CandidatesTested(ops)
        names == NamesBuilt(0, Len(tested),
                            [i |-> 0,
                             prefix |-> CopyPrefix(CallerBuffer(call.fileNamePrefix), NUL),
                             names |-> <<>>], call.csvData).names
    IN /\ call.returned /\ ~halted
       /\ Len(tested) <= IndexLimit
       /\ tested = names
       /\ call.index \in {Len(tested) - 1, Len(tested)}
       /\ \A k \in 1..Len(ops) : ops[k][1] = "sd.open" => k = Len(ops)

\* C23 (reached): the loop checked the indices 0 .. 5 and opened the sixth
\* candidate
C23_SixChecksOneOpen ==
  /\ Searched(call) /\ call.returned /\ call.created /\ call.index = 5
  /\ Len(CandidatesTested(ops)) = 6
  /\ ops[Len(ops)] = OpOpen(filePath)

(***************************************************************************)
(* C24. A write fault is not retried.                                      *)
(***************************************************************************)
\* a call that got as far as file.write and returned
Wrote(c) == c.op \in LogOps /\ c.wasOpen /\ c.returned /\ c.source # "none"

\* C24: a call of logBytes issues at most one file.write and one file.sync;
\* when file.write takes fewer bytes than it was given, the file grows by
\* that count only, the call returns the count, and the rest is not written.
C24_NoRetry ==
  [][ call'.op \in LogOps =>
        /\ Cardinality({k \in 1..Len(ops') : ops'[k][1] = "file.write"}) <= 1
        /\ Cardinality({k \in 1..Len(ops') : ops'[k] = OpSync}) <= 1
        /\ Wrote(call') =>
             LET chunk == layout'[filePath][Len(layout'[filePath])]
             IN /\ Len(layout'[filePath]) = Len(layout[filePath]) + 1
                /\ chunk.n = call'.numBytes
                /\ call'.ret = chunk.written
                /\ Len(files'[filePath]) = Len(files[filePath]) + chunk.written
                /\ SubSeq(files'[filePath], 1, Len(files[filePath])) = files[filePath]
    ]_vars

\* C24 (reached): file.write took 1 byte of 200 and logBytes returned 1
C24_ShortWriteReturned ==
  /\ call.op = "logBytes" /\ Wrote(call)
  /\ call.numBytes = 200 /\ call.ret = 1
  /\ ops = <<OpWrite(200, "caller"), OpSync>>
  /\ layout[filePath][Len(layout[filePath])].written = 1

(***************************************************************************)
(* C27. logString and the width of numBytes.                               *)
(***************************************************************************)
\* C27: logString with a file open hands the device the whole string when
\* its length is at most OUTPUT_BUF_SIZE - 1: the count given to file.write
\* is strlen of the string, not strlen modulo 256.
C27_WholeString ==
  (call.op = "logString" /\ Wrote(call) /\ Len(call.handed) <= OUTPUT_BUF_SIZE - 1) =>
    /\ call.numBytes = Len(call.handed)
    /\ ops = <<OpWrite(Len(call.handed), "caller"), OpSync>>

(***************************************************************************)
(* C25. Distinct indices, distinct names.                                  *)
(***************************************************************************)
\* C25: the candidate names one call of beginDataLog builds for the indices
\* it goes through are pairwise distinct, also for a prefix whose kept
\* characters end in a digit.
C25_DistinctNames ==
  Searched(call) =>
    LET tested == CandidatesTested(ops)
    IN Cardinality({tested[k] : k \in 1..Len(tested)}) = Len(tested)

(***************************************************************************)
(* C26. What beginDataLog deletes.                                         *)
(***************************************************************************)
\* C26: what beginDataLog frees with delete [] is always a heap buffer: it
\* never frees the cache buffer of the SD volume that an earlier
\* beginDataLog installed as the scratch buffer.
C26_DeletesHeapOnly ==
  call.op = "beginDataLog" => call.deleted \in {"nothing", "heap"}

(***************************************************************************)
(* C28. The first byte tells the record.                                   *)
(***************************************************************************)
\* C28: the eight type tags are the pairwise distinct values 0 .. 7
\* (acceleration 0, magnetic 1, gyro 2, orientation 3, temperature 4,
\* luminosity 5, UV 6, pressure 7) and none is 0xFF: the first byte of every
\* record handed over tells a time reference record from a sensor record
\* and gives the length of the record.
C28_TagsTellRecords ==
  /\ <<TypeTag("binaryLogAcceleration"), TypeTag("binaryLogMagnetic"),
       TypeTag("binaryLogGyro"), TypeTag("binaryLogOrientation"),
       TypeTag("binaryLogTemperature"), TypeTag("binaryLogLuminosity"),
       TypeTag("binaryLogUVLight"), TypeTag("binaryLogPressure")>>
       = <<0, 1, 2, 3, 4, 5, 6, 7>>
  /\ Cardinality({TypeTag(e) : e \in ThreeFloatEncoders \cup OneFloatEncoders}) = 8
  /\ \A e \in ThreeFloatEncoders \cup OneFloatEncoders : TypeTag(e) # 255
  /\ Encoded(call) =>
       /\ call.handed[1] = TypeTag(call.info.enc)
       /\ call.handed[1] # 255
       /\ RecordLength(call.handed[1]) = Len(call.handed)
  /\ (call.op = "binaryLogRTCTimestamp" /\ call.running) =>
       /\ call.handed[1] = 255
       /\ RecordLength(call.handed[1]) = Len(call.handed)

\* C28 (reached): a binary file that starts with a whole time reference
\* record followed by a whole sensor record
C28_TimeThenSensor ==
  /\ fileOpen /\ Encoded(call) /\ call.wasOpen
  /\ Len(layout[filePath]) = 2
  /\ layout[filePath][1] = [kind |-> "time", n |-> 10, written |-> 10]
  /\ layout[filePath][2].kind = "sensor"
  /\ layout[filePath][2].written = layout[filePath][2].n
  /\ files[filePath][1] = 255
  /\ files[filePath][11] = TypeTag(call.info.enc)
  /\ WholeRecords(files[filePath])

====
